---- MODULE Spec2Model ----
(***************************************************************************)
(* Model of server.js: the pricing function calculatePaymentServer, the    *)
(* POST /api/calculate-payment handler and the POST /api/initiate-payment  *)
(* handler with its single outbound call to the payment gateway.           *)
(*                                                                         *)
(* JavaScript values are records [t, n, s]: t is the type tag, n the       *)
(* numeric content (numbers, booleans as 0/1), s the string content.       *)
(* A string is a sequence of chunks; request input uses one character per  *)
(* chunk, a literal of the source is a single chunk.                       *)
(***************************************************************************)
EXTENDS Integers, Sequences, FiniteSets

VARIABLES
    ZAINPAY_SECRET_KEY,  \* process.env.ZAINPAY_SECRET_KEY, read once at startup
    ZAINBOX_CODE,        \* process.env.ZAINBOX_CODE, read once at startup
    now,                 \* the value Date.now() returns
    reqs,                \* the initiate-payment requests received, in arrival order
    outbound,            \* the axios.post calls issued to the gateway, in order
    calc                 \* the last calculate-payment exchange

vars == <<ZAINPAY_SECRET_KEY, ZAINBOX_CODE, now, reqs, outbound, calc>>

----------------------------------------------------------------------------
(* Bounds of the model *)

MaxReq == 2        \* initiate-payment requests in one run of the server
MaxClock == 11     \* the clock stops advancing here
StartClock == 9    \* Date.now() at startup
PctBelow == 20     \* the pricing run covers percentages -PctBelow .. PctAbove
PctAbove == 150

----------------------------------------------------------------------------
(* JavaScript values *)

Undef == [t |-> "undefined", n |-> 0, s |-> <<>>]
Null == [t |-> "null", n |-> 0, s |-> <<>>]
NaN == [t |-> "NaN", n |-> 0, s |-> <<>>]
Func == [t |-> "function", n |-> 0, s |-> <<>>]
Bool(b) == [t |-> "boolean", n |-> IF b THEN 1 ELSE 0, s |-> <<>>]
Num(i) == [t |-> "number", n |-> i, s |-> <<>>]
Str(chunks) == [t |-> "string", n |-> 0, s |-> chunks]

Digits == <<"0", "1", "2", "3", "4", "5", "6", "7", "8", "9">>

IsDigit(c) == \E i \in 1..10 : Digits[i] = c

DigitValue(c) == (CHOOSE i \in 1..10 : Digits[i] = c) - 1

\* ToBoolean: what `!x` and `x || y` test.
Truthy(v) ==
    CASE v.t = "boolean" -> v.n = 1
      [] v.t = "number" -> v.n # 0
      [] v.t = "string" -> v.s # <<>>
      [] v.t = "function" -> TRUE
      [] OTHER -> FALSE

RECURSIVE DigitsToInt(_)
DigitsToInt(s) ==
    IF s = <<>> THEN 0
    ELSE 10 * DigitsToInt(SubSeq(s, 1, Len(s) - 1)) + DigitValue(s[Len(s)])

\* StringToNumber on the strings of the model: "" is 0, an optionally signed
\* run of digits is its decimal value, anything else is NaN.
StringToNumber(s) ==
    LET body == IF s # <<>> /\ s[1] = "-" THEN Tail(s) ELSE s
        neg == s # <<>> /\ s[1] = "-"
    IN  IF s = <<>> THEN Num(0)
        ELSE IF body # <<>> /\ \A i \in 1..Len(body) : IsDigit(body[i])
             THEN Num(IF neg THEN 0 - DigitsToInt(body) ELSE DigitsToInt(body))
             ELSE NaN

\* ToNumber: the coercion isNaN() and the arithmetic operators apply.
ToNumber(v) ==
    CASE v.t = "number" -> v
      [] v.t = "boolean" -> Num(v.n)
      [] v.t = "null" -> Num(0)
      [] v.t = "string" -> StringToNumber(v.s)
      [] OTHER -> NaN

isNaN(v) == ToNumber(v).t = "NaN"

RECURSIVE NatToString(_)
NatToString(i) ==
    IF i < 10 THEN <<Digits[i + 1]>>
    ELSE NatToString(i \div 10) \o <<Digits[(i % 10) + 1]>>

\* Math.round on an amount held in hundredths: the nearest integer, a half
\* going up.
MathRound(x) == IF x.t = "NaN" THEN NaN ELSE Num((x.n + 50) \div 100)

----------------------------------------------------------------------------
(* Fee structure and pricing *)

Fee1158650 ==
    {"DBA", "DBA_PFG", "DBA_CGL", "DBA_AIS", "DBA_AFI", "DBA_ENT", "DBA_PAP",
     "DBA_TECH", "DBA_DSA", "DBA_HMN", "DBA_PSM", "DBA_PM", "DBA_EE", "DBA_HRM",
     "DBA_MM"}

Fee816450 == {"DPA", "DPA_SSS", "DPA_LDS", "MBA", "MScA", "MPhilA"}

Fee581450 ==
    {"MPFG", "MCGL", "MAIS", "MAFI", "MENT", "MSSS", "MTFP", "MLDS", "MPAP",
     "MPSS", "MEE", "MFIN", "MDATA", "MPRO", "MHRM", "MMAR", "MICM"}

Fee275000 == {"PGD_ACC", "PGD_MGMT"}

feeStructure ==
    [k \in Fee1158650 \cup Fee816450 \cup Fee581450 \cup Fee275000 |->
        IF k \in Fee1158650 THEN 1158650
        ELSE IF k \in Fee816450 THEN 816450
        ELSE IF k \in Fee581450 THEN 581450
        ELSE 275000]

\* The members every object literal inherits from Object.prototype.
PrototypeKeys ==
    {"constructor", "toString", "toLocaleString", "valueOf", "hasOwnProperty",
     "isPrototypeOf", "propertyIsEnumerable", "__proto__"}

\* feeStructure[program]: an own key gives its fee, an inherited key gives
\* the inherited member, any other key (also the key a non-string program
\* converts to) gives undefined.  A program code is a single chunk.
PropertyLookup(program) ==
    IF program.t = "string" /\ Len(program.s) = 1
    THEN IF program.s[1] \in DOMAIN feeStructure THEN Num(feeStructure[program.s[1]])
         ELSE IF program.s[1] \in PrototypeKeys THEN Func
         ELSE Undef
    ELSE Undef

\* a * b on integer-valued operands.
Times(a, b) ==
    IF isNaN(a) \/ isNaN(b) THEN NaN ELSE Num(ToNumber(a).n * ToNumber(b).n)

\* a + b on numbers.
Plus(a, b) == IF a.t = "NaN" \/ b.t = "NaN" THEN NaN ELSE Num(a.n + b.n)

\* totalFee is in whole currency units; schoolFees, bankCharges and
\* totalAmount are held in hundredths of a unit, so that
\* (totalFee * percentage) / 100 is the product itself and x * 0.02 is
\* (x * 2) / 100.
calculatePaymentServer(program, percentage) ==
    LET found == PropertyLookup(program)
        totalFee == IF Truthy(found) THEN found ELSE Num(0)
        schoolFees == Times(totalFee, percentage)
        bankCharges == IF schoolFees.t = "NaN" THEN NaN
                       ELSE Num((schoolFees.n * 2) \div 100)
        totalAmount == Plus(schoolFees, bankCharges)
    IN  [totalFee |-> totalFee, schoolFees |-> schoolFees,
         bankCharges |-> bankCharges, totalAmount |-> totalAmount]

----------------------------------------------------------------------------
(* Responses *)

NoData == [t |-> "undefined", message |-> Undef, paymentUrl |-> Undef]

NoBreakdown ==
    [totalFee |-> Undef, schoolFees |-> Undef, bankCharges |-> Undef,
     totalAmount |-> Undef]

\* res.status(status).json({ message })
Json(status, message) ==
    [status |-> status, message |-> message, payment_url |-> Undef,
     details |-> NoData, breakdown |-> NoBreakdown]

NoRes == Json(0, <<>>)

NoReply == [kind |-> "none", status |-> 0, data |-> NoData]

----------------------------------------------------------------------------
(* POST /api/calculate-payment *)

CalculateHandler(body) ==
    IF ~Truthy(body.program) \/ isNaN(body.percentage)
    THEN Json(400, <<"Program and percentage are required for calculation.">>)
    ELSE [Json(200, <<>>) EXCEPT
             !.breakdown = calculatePaymentServer(body.program, body.percentage)]

CalculatePayment(body) ==
    /\ calc' = [body |-> body, res |-> CalculateHandler(body)]
    /\ UNCHANGED <<ZAINPAY_SECRET_KEY, ZAINBOX_CODE, now, reqs, outbound>>

----------------------------------------------------------------------------
(* POST /api/initiate-payment *)

\* phone.replace(/\D/g, '')
RECURSIVE StripNonDigits(_)
StripNonDigits(s) ==
    IF s = <<>> THEN <<>>
    ELSE (IF IsDigit(Head(s)) THEN <<Head(s)>> ELSE <<>>) \o StripNonDigits(Tail(s))

\* `ANAN-${Date.now()}-${phone.replace(/\D/g, '')}`
TxnRef(time, phone) ==
    <<"ANAN-">> \o NatToString(time) \o <<"-">> \o StripNonDigits(phone.s)

\* The handler taking the amount the client supplied, when there is one.
AmountFromClient(body) ==
    IF Truthy(body.amount) THEN body.amount
    ELSE MathRound(calculatePaymentServer(body.program, body.percentage).totalAmount)

\* The amount the handler forwards.
AmountInNaira(body) ==
    MathRound(calculatePaymentServer(body.program, body.percentage).totalAmount)

\* The body of the axios.post call.
GatewayCall(id, body) ==
    [req |-> id,
     amount |-> AmountInNaira(body),
     txnRef |-> TxnRef(now, body.phone),
     mobileNumber |-> body.phone,
     emailAddress |-> body.email,
     zainboxCode |-> ZAINBOX_CODE,
     authorization |-> <<"Bearer ">> \o ZAINPAY_SECRET_KEY.s]

\* The validation without its email check.
FailsValidationNoEmail(body) ==
    \/ ~Truthy(body.fullName)
    \/ ~Truthy(body.phone)
    \/ ~Truthy(body.gender)
    \/ ~Truthy(body.program)
    \/ isNaN(body.percentage)

FailsValidation(body) ==
    \/ ~Truthy(body.fullName)
    \/ ~Truthy(body.email)
    \/ ~Truthy(body.phone)
    \/ ~Truthy(body.gender)
    \/ ~Truthy(body.program)
    \/ isNaN(body.percentage)

\* The configuration check looking at the secret key alone.
NotConfiguredKeyOnly == ~Truthy(ZAINPAY_SECRET_KEY)

NotConfigured == ~Truthy(ZAINPAY_SECRET_KEY) \/ ~Truthy(ZAINBOX_CODE)

\* phone.replace is a method of strings only: on any other truthy value the
\* call throws a TypeError inside the try block.
ReplaceThrows(body) == body.phone.t # "string"

\* The handler from its entry to the await of axios.post: it runs without
\* interleaving.  It answers at once, or issues the call and suspends.
InitiatePayment(body) ==
    LET id == Len(reqs) + 1
        done(res) ==
            /\ reqs' = Append(reqs, [body |-> body, pc |-> "done", res |-> res,
                                     reply |-> NoReply])
            /\ outbound' = outbound
    IN  /\ IF FailsValidation(body)
           THEN done(Json(400, <<"Missing required payment details.">>))
           ELSE IF NotConfigured
           THEN done(Json(500, <<"Server is not configured with payment keys.">>))
           ELSE IF ReplaceThrows(body)
           THEN done(Json(500, <<"Internal server error: ",
                                 "phone.replace is not a function">>))
           ELSE /\ reqs' = Append(reqs, [body |-> body, pc |-> "awaiting",
                                         res |-> NoRes, reply |-> NoReply])
                /\ outbound' = Append(outbound, GatewayCall(id, body))
        /\ UNCHANGED <<ZAINPAY_SECRET_KEY, ZAINBOX_CODE, now, calc>>

\* The success branch forwarding the URL field without testing it.
SuccessResponseUnchecked(reply) ==
    [Json(200, <<>>) EXCEPT !.payment_url = reply.data.paymentUrl]

\* zainpayResponse.data && zainpayResponse.data.paymentUrl
SuccessResponse(reply) ==
    IF reply.data.t = "object" /\ Truthy(reply.data.paymentUrl)
    THEN [Json(200, <<>>) EXCEPT !.payment_url = reply.data.paymentUrl]
    ELSE Json(500, <<"Failed to obtain payment URL from ZainPay. Invalid response.">>)

\* The error branch answering 500 whatever the gateway's status.
RejectionResponseAs500(reply) ==
    [Json(500, <<"ZainPay API Error: ", "Unknown API error">>)
        EXCEPT !.details = reply.data]

\* catch, error.response: the gateway answered with an error status.
RejectionResponse(reply) ==
    [Json(IF reply.status # 0 THEN reply.status ELSE 500,
          <<"ZainPay API Error: ">> \o
          (IF reply.data.t = "object" /\ Truthy(reply.data.message)
           THEN reply.data.message.s
           ELSE <<"Unknown API error">>))
        EXCEPT !.details = reply.data]

\* The no-response branch falling through to the internal-error answer.
UnreachableResponseAs500 == Json(500, <<"Internal server error: ", "timeout">>)

\* catch, error.request: the call was sent and nothing came back.
UnreachableResponse ==
    Json(504, <<"Payment gateway did not respond. Please try again.">>)

\* The response the handler sends once axios.post settles with `reply`.
GatewayResponse(reply) ==
    CASE reply.kind = "success" -> SuccessResponse(reply)
      [] reply.kind = "error" -> RejectionResponse(reply)
      [] OTHER -> UnreachableResponse

\* The continuation after the await: the gateway call of request r settles
\* and the handler answers.
GatewayResolve(r, reply) ==
    /\ r \in 1..Len(reqs)
    /\ reqs[r].pc = "awaiting"
    /\ reqs' = [reqs EXCEPT ![r] = [@ EXCEPT !.pc = "done", !.reply = reply,
                                             !.res = GatewayResponse(reply)]]
    /\ UNCHANGED <<ZAINPAY_SECRET_KEY, ZAINBOX_CODE, now, outbound, calc>>

\* Time passes.
Tick ==
    /\ now < MaxClock
    /\ now' = now + 1
    /\ UNCHANGED <<ZAINPAY_SECRET_KEY, ZAINBOX_CODE, reqs, outbound, calc>>

----------------------------------------------------------------------------
(* Inputs *)

EnvValues == {Undef, Str(<<>>), Str(<<"k">>)}

BaseBody ==
    [fullName |-> Str(<<"A", "d", "a">>),
     email |-> Str(<<"a", "@", "b">>),
     phone |-> Str(<<"0", "8", "-", "1">>),
     gender |-> Str(<<"F">>),
     program |-> Str(<<"MBA">>),
     percentage |-> Num(50),
     amount |-> Undef]

Missing == {Undef, Null, Str(<<>>)}

\* Requests of the concurrent run: the same payer twice, the same digits
\* written differently, a client-supplied amount, another program, a missing
\* email and a numeric phone.
Bodies ==
    {BaseBody,
     [BaseBody EXCEPT !.phone = Str(<<"0", "8", "1">>)],
     [BaseBody EXCEPT !.amount = Num(1), !.fullName = Str(<<"B">>)],
     [BaseBody EXCEPT !.program = Str(<<"PGD_ACC">>), !.percentage = Num(100)],
     [BaseBody EXCEPT !.email = Undef],
     [BaseBody EXCEPT !.phone = Num(81)]}

PercentageValues ==
    {Undef, Null, Str(<<>>), Bool(TRUE), Bool(FALSE), Str(<<"5", "0">>),
     Str(<<"a", "b", "c">>), Num(33), Num(0 - 10), Num(150)}

ProgramValues ==
    Missing \cup {Str(<<"PGD_ACC">>), Str(<<"XYZ">>), Str(<<"toString">>)}

\* Requests of the single-request run: the base request with one field
\* replaced.
AllBodies ==
    Bodies
    \cup {[BaseBody EXCEPT !.fullName = v] : v \in Missing}
    \cup {[BaseBody EXCEPT !.email = v] : v \in Missing}
    \cup {[BaseBody EXCEPT !.phone = v] : v \in Missing}
    \cup {[BaseBody EXCEPT !.gender = v] : v \in Missing}
    \cup {[BaseBody EXCEPT !.program = v] : v \in ProgramValues}
    \cup {[BaseBody EXCEPT !.percentage = v] : v \in PercentageValues}

CalcBodies ==
    {[program |-> pr, percentage |-> pc] :
        pr \in {Undef, Str(<<"MBA">>)}, pc \in PercentageValues \cup {Num(50)}}

PricingPrograms ==
    {Str(<<"MBA">>), Str(<<"DBA">>), Str(<<"MICM">>), Str(<<"PGD_ACC">>),
     Str(<<"XYZ">>), Str(<<"toString">>)}

PricingBodies ==
    {[program |-> pr, percentage |-> Num(p)] :
        pr \in PricingPrograms, p \in (0 - PctBelow)..PctAbove}

Url == Str(<<"https://pay/", "1">>)

UrlData == [t |-> "object", message |-> Undef, paymentUrl |-> Url]

ErrorData == [t |-> "object", message |-> Str(<<"bad key">>), paymentUrl |-> Undef]

\* What axios.post can settle with.
Replies ==
    {[kind |-> "success", status |-> 200, data |-> UrlData],
     [kind |-> "success", status |-> 200, data |-> NoData],
     [kind |-> "error", status |-> 401, data |-> ErrorData],
     [kind |-> "noResponse", status |-> 0, data |-> NoData]}

AllReplies ==
    Replies
    \cup {[kind |-> "success", status |-> 201,
           data |-> [UrlData EXCEPT !.paymentUrl = v]] : v \in Missing}
    \cup {[kind |-> "error", status |-> s, data |-> d] :
            s \in {400, 500, 504},
            d \in {NoData, ErrorData, [ErrorData EXCEPT !.message = Undef]}}

----------------------------------------------------------------------------
(* Specifications *)

NoCalc == [body |-> [program |-> Undef, percentage |-> Undef], res |-> NoRes]

Init ==
    /\ ZAINPAY_SECRET_KEY \in EnvValues
    /\ ZAINBOX_CODE \in EnvValues
    /\ now = StartClock
    /\ reqs = <<>>
    /\ outbound = <<>>
    /\ calc = NoCalc

\* The server under concurrent initiate-payment requests.
Next ==
    \/ Tick
    \/ Len(reqs) < MaxReq /\ \E body \in Bodies : InitiatePayment(body)
    \/ \E r \in 1..MaxReq, reply \in Replies : GatewayResolve(r, reply)

Spec == Init /\ [][Next]_vars

\* One initiate-payment request and any number of calculate-payment
\* requests, over the wide input sets.
NextOne ==
    \/ Tick
    \/ reqs = <<>> /\ \E body \in AllBodies : InitiatePayment(body)
    \/ \E reply \in AllReplies : GatewayResolve(1, reply)
    \/ \E body \in CalcBodies : CalculatePayment(body)

SpecOne == Init /\ [][NextOne]_vars

\* The pricing function applied once to a request drawn from every program
\* of the sample and a range of integer percentages.
InitPricing ==
    /\ ZAINPAY_SECRET_KEY = Undef
    /\ ZAINBOX_CODE = Undef
    /\ now = StartClock
    /\ reqs = <<>>
    /\ outbound = <<>>
    /\ calc \in {[body |-> b, res |-> NoRes] : b \in PricingBodies}

NextPricing == calc.res = NoRes /\ CalculatePayment(calc.body)

SpecPricing == InitPricing /\ [][NextPricing]_vars

----------------------------------------------------------------------------
(* Properties *)

Ids == 1..Len(reqs)

CallsOf(r) == {i \in 1..Len(outbound) : outbound[i].req = r}

Answered(r) == reqs[r].pc = "done"

ValidationMessage == <<"Missing required payment details.">>

\* C1: a request in which fullName, email, phone, gender or program is
\* missing or empty is answered with status 400 and the validation message,
\* and no gateway call is issued for it, whatever the configuration.
C1_MissingFieldRejected ==
    \A r \in Ids :
        (\E f \in {"fullName", "email", "phone", "gender", "program"} :
            reqs[r].body[f] \in Missing)
        => /\ Answered(r)
           /\ reqs[r].res.status = 400
           /\ reqs[r].res.message = ValidationMessage
           /\ CallsOf(r) = {}

C1_Witness ==
    \E r \in Ids :
        /\ reqs[r].body.email = Undef
        /\ reqs[r].body.percentage = Num(50)
        /\ Truthy(ZAINPAY_SECRET_KEY) /\ Truthy(ZAINBOX_CODE)
        /\ reqs[r].res.status = 400

CredentialAbsent(v) == v \in {Undef, Str(<<>>)}

\* C2: a request that passes validation while the secret key or the box
\* code is absent is answered with status 500 and no gateway call is issued
\* for it.
C2_UnconfiguredRejected ==
    \A r \in Ids :
        (/\ ~FailsValidation(reqs[r].body)
         /\ CredentialAbsent(ZAINPAY_SECRET_KEY) \/ CredentialAbsent(ZAINBOX_CODE))
        => /\ Answered(r)
           /\ reqs[r].res.status = 500
           /\ CallsOf(r) = {}

C2_Witness ==
    \E r \in Ids :
        /\ reqs[r].body = BaseBody
        /\ Truthy(ZAINPAY_SECRET_KEY) /\ CredentialAbsent(ZAINBOX_CODE)
        /\ reqs[r].res.status = 500
        /\ outbound = <<>>

\* C3: the amount of every gateway call is the pricing function's
\* totalAmount for the request's program and percentage, rounded to a whole
\* unit; two calls whose requests agree on program and percentage carry the
\* same amount, whatever the other fields hold.
C3_AmountFromServerPricing ==
    /\ \A i \in 1..Len(outbound) :
          LET b == reqs[outbound[i].req].body
              total == calculatePaymentServer(b.program, b.percentage).totalAmount
          IN  IF total.t = "NaN" THEN outbound[i].amount = NaN
              ELSE /\ outbound[i].amount.t = "number"
                   /\ outbound[i].amount.n * 100 - 50 <= total.n
                   /\ total.n < outbound[i].amount.n * 100 + 50
    /\ \A i, j \in 1..Len(outbound) :
          LET a == reqs[outbound[i].req].body
              b == reqs[outbound[j].req].body
          IN  (a.program = b.program /\ a.percentage = b.percentage)
              => outbound[i].amount = outbound[j].amount

C3_Witness ==
    \E i, j \in 1..Len(outbound) :
        /\ reqs[outbound[i].req].body.amount = Num(1)
        /\ reqs[outbound[j].req].body = BaseBody
        /\ outbound[i].amount = Num(416390)
        /\ outbound[j].amount = Num(416390)

NotNumericType(v) == v.t # "number"

\* C4: a request whose percentage is not of numeric type is answered with
\* status 400 by both endpoints: no breakdown is returned and no gateway
\* call is issued.
C4_NonNumericPercentageRejected ==
    /\ \A r \in Ids :
          NotNumericType(reqs[r].body.percentage)
          => /\ Answered(r)
             /\ reqs[r].res.status = 400
             /\ CallsOf(r) = {}
    /\ (calc # NoCalc /\ NotNumericType(calc.body.percentage))
          => /\ calc.res.status = 400
             /\ calc.res.breakdown = NoBreakdown

\* C5: for every program and integer percentage p the breakdown has
\* totalFee = feeStructure[program] for a program of the fee structure and 0
\* otherwise, schoolFees = totalFee * p / 100, bankCharges = schoolFees * 2 /
\* 100 and totalAmount = schoolFees + bankCharges (amounts in hundredths);
\* (MBA, 50) gives 816450 / 408225 / 8164.5 / 416389.5.
C5_BreakdownExact ==
    calc.res # NoRes =>
        LET program == calc.body.program.s[1]
            p == calc.body.percentage.n
            fee == IF program \in DOMAIN feeStructure THEN feeStructure[program] ELSE 0
            b == calc.res.breakdown
        IN  /\ calc.res.status = 200
            /\ b.totalFee = Num(fee)
            /\ b.schoolFees = Num(fee * p)
            /\ b.bankCharges.t = "number"
            /\ b.bankCharges.n * 100 = b.schoolFees.n * 2
            /\ b.totalAmount = Num(b.schoolFees.n + b.bankCharges.n)
            /\ (program = "MBA" /\ p = 50)
                  => b = [totalFee |-> Num(816450), schoolFees |-> Num(40822500),
                          bankCharges |-> Num(816450), totalAmount |-> Num(41638950)]

\* C6: a request that passes validation and the configuration check
\* triggers exactly one gateway call, and no request triggers more than one.
C6_ExactlyOneCall ==
    \A r \in Ids :
        /\ Cardinality(CallsOf(r)) <= 1
        /\ (~FailsValidation(reqs[r].body) /\ ~NotConfigured)
              => Cardinality(CallsOf(r)) = 1

\* C7: any two gateway calls carry distinct transaction references.
C7_DistinctReferences ==
    \A i, j \in 1..Len(outbound) :
        i # j => outbound[i].txnRef # outbound[j].txnRef

\* C8: when the gateway answers with an error status s, the client receives
\* status s, a message, and details equal to the gateway's payload.
C8_RejectionPropagated ==
    \A r \in Ids :
        reqs[r].reply.kind = "error"
        => /\ reqs[r].res.status = reqs[r].reply.status
           /\ reqs[r].res.message # <<>>
           /\ reqs[r].res.details = reqs[r].reply.data

C8_Witness ==
    \E r \in Ids :
        /\ reqs[r].reply.kind = "error"
        /\ reqs[r].reply.status = 400
        /\ reqs[r].reply.data = ErrorData
        /\ reqs[r].res.status = 400
        /\ reqs[r].res.details = ErrorData

UnreachableMessage == <<"Payment gateway did not respond. Please try again.">>

NoResponseGets504 ==
    \A r \in Ids :
        reqs[r].reply.kind = "noResponse"
        => /\ reqs[r].res.status = 504
           /\ reqs[r].res.message = UnreachableMessage
           /\ reqs[r].res.details = NoData

\* C9 as stated: a call that gets no response is answered with status 504,
\* the fixed message and no details, and status 504 is produced in no other
\* situation.
C9_Only504WhenUnreachable ==
    /\ NoResponseGets504
    /\ \A r \in Ids : reqs[r].res.status = 504 => reqs[r].reply.kind = "noResponse"
    /\ calc.res.status # 504

\* C9 as amended: a call that gets no response is answered with status 504,
\* the fixed message and no details; status 504 is otherwise produced only
\* when the gateway itself answered with status 504.
C9_504UnreachableOrPropagated ==
    /\ NoResponseGets504
    /\ \A r \in Ids :
          reqs[r].res.status = 504
          => \/ reqs[r].reply.kind = "noResponse"
             \/ reqs[r].reply.kind = "error" /\ reqs[r].reply.status = 504
    /\ calc.res.status # 504

C9_Witness ==
    \E r \in Ids :
        /\ reqs[r].reply.kind = "noResponse"
        /\ reqs[r].res.status = 504
        /\ reqs[r].res.message = UnreachableMessage

\* C10: when the gateway answers with a success status, the client receives
\* payment_url equal to the gateway's paymentUrl exactly when that field is
\* present and non-empty; otherwise it receives status 500 and no
\* payment_url.
C10_UrlIffPresent ==
    \A r \in Ids :
        reqs[r].reply.kind = "success"
        => IF /\ reqs[r].reply.data.t = "object"
              /\ reqs[r].reply.data.paymentUrl \notin Missing
           THEN /\ reqs[r].res.status = 200
                /\ reqs[r].res.payment_url = reqs[r].reply.data.paymentUrl
           ELSE /\ reqs[r].res.status = 500
                /\ reqs[r].res.payment_url = Undef

C10_Witness ==
    \E r \in Ids :
        /\ reqs[r].reply.kind = "success"
        /\ reqs[r].reply.data.paymentUrl = Url
        /\ reqs[r].res.payment_url = Url

====
